---- MODULE Spec2Model ----
(***************************************************************************)
(* The per-frame simulation of glpong (src/README.md, the final listing of *)
(* main.cpp): processInput, the render loop's physics block and the        *)
(* framebuffer-size callback.                                              *)
(*                                                                         *)
(* Numbers.  The program computes in float; the model computes in exact    *)
(* rationals, held as integers over a common denominator:                   *)
(*   - a velocity v px/s is held as v * VDen,                              *)
(*   - dt is counted in ticks of 1/5 s,                                    *)
(*   - a position p px is held as p * PosScale, PosScale = 5 * VDen,       *)
(* so that position += velocity * dt is the integer x + v * dt.  VDen is   *)
(* the denominator that keeps 150 * 1.05^e exact for e <= MaxAmp.          *)
(* The unsigned 32-bit frame counter is held as its two's-complement bit   *)
(* pattern (a signed 32-bit integer): -1 is the pattern of (unsigned) -1.  *)
(***************************************************************************)
EXTENDS Integers, FiniteSets, Sequences, TLC

(* ------------------------------ bounds -------------------------------- *)
\* frames with dt > 0 that are explored (frames with dt = 0 are not limited)
MaxMoves == 2
\* largest value of the frame counter that is explored counting up from 0
\* (the top of the unsigned range, the negative bit patterns, is not limited)
MaxCount == 11
\* paddle collisions (x-amplifications) between two scores
MaxAmp == 2
\* framebuffer-size events that are explored
MaxResizes == 1

\* elapsed times of a frame, in ticks of 1/5 s
DtSet == {0, 2, 10}
\* key states polled by processInput
KeySet == { {}, {"UP"}, {"DOWN"}, {"S"}, {"W", "S"}, {"ESC"} }
\* framebuffer sizes delivered to the callback, in pixels
SizeSet == { <<400, 900>> }

(* ------------------------------ scales -------------------------------- *)
VDen == IF MaxAmp = 0 THEN 1 ELSE IF MaxAmp = 1 THEN 2 ELSE (2 ^ (2 * MaxAmp - 1)) * (5 ^ (MaxAmp - 2))
PosScale == 5 * VDen
Px(n) == n * PosScale

Abs(a) == IF a < 0 THEN -a ELSE a

(* ------------------------- program constants -------------------------- *)
paddleSpeed == 150 * VDen
paddleHeight == Px(100)
halfPaddleHeight == paddleHeight \div 2
paddleWidth == Px(10)
halfPaddleWidth == paddleWidth \div 2
ballDiameter == Px(16)
ballRadius == ballDiameter \div 2
offset == ballRadius
paddleBoundary == halfPaddleHeight + offset
initBallVelocity == [x |-> 150 * VDen, y |-> 150 * VDen]
framesThreshold == 10
scrWidthInit == 800
scrHeightInit == 600
\* x of the left paddle, and distance of the right paddle from the right edge
paddleMargin == 35

(* ----------------------- unsigned int arithmetic ---------------------- *)
UIntMax == -1
IntMax == 2147483647
\* unsigned value order on bit patterns: negative patterns are the large values
UGe(a, b) == IF (a < 0) = (b < 0) THEN a >= b ELSE a < 0
\* ++ on unsigned int wraps
UInc(c) == IF c = IntMax THEN (-IntMax) - 1 ELSE c + 1

VARIABLES
    scrWidth, scrHeight,        \* settings, in pixels
    paddleOffsets,              \* [0..1 -> [x, y]], paddle centres
    paddleVelocities,           \* [0..1 -> velocity]
    ballOffset,                 \* [x, y], ball centre
    ballVelocity,               \* [x, y]
    framesSinceLastCollision,   \* bit pattern of the unsigned counter
    shouldClose,                \* glfwWindowShouldClose(window)
    last,                       \* the step just taken: inputs and the locals reset, i, collision
                                \* (and wallFlips: how many frames in a row, this one
                                \* included, the wall rule has fired: 0, 1, or 2 for more)
    moves, resizes              \* frames with dt > 0 and resize events so far (exploration bounds)

vars == <<scrWidth, scrHeight, paddleOffsets, paddleVelocities, ballOffset, ballVelocity, framesSinceLastCollision, shouldClose, last, moves, resizes>>

(* ------------------------------ processInput -------------------------- *)
\* mutant: the boundary tests admit the limit itself (<= for <, >= for >)
PaddleInput_Loose(up, down, y, H) ==
    LET hi == Px(H) - paddleBoundary
        lo == paddleBoundary
        v1 == IF up /\ y <= hi THEN paddleSpeed ELSE 0
        y1 == IF up /\ ~(y <= hi) THEN hi ELSE y
        v2 == IF down /\ y1 >= lo THEN -paddleSpeed ELSE v1
        y2 == IF down /\ ~(y1 >= lo) THEN lo ELSE y1
    IN [y |-> y2, v |-> v2]

\* one paddle: the "up" test, then the "down" test on its result
PaddleInput(up, down, y, H) ==
    LET hi == Px(H) - paddleBoundary
        lo == paddleBoundary
        v1 == IF up /\ y < hi THEN paddleSpeed ELSE 0
        y1 == IF up /\ ~(y < hi) THEN hi ELSE y
        v2 == IF down /\ y1 > lo THEN -paddleSpeed ELSE v1
        y2 == IF down /\ ~(y1 > lo) THEN lo ELSE y1
    IN [y |-> y2, v |-> v2]

processInput(keys, offs, H) ==
    LET l == PaddleInput("W" \in keys, "S" \in keys, offs[0].y, H)
        r == PaddleInput("UP" \in keys, "DOWN" \in keys, offs[1].y, H)
    IN [offsets |-> [i \in 0..1 |-> [x |-> offs[i].x, y |-> IF i = 0 THEN l.y ELSE r.y]],
        velocities |-> [i \in 0..1 |-> IF i = 0 THEN l.v ELSE r.v],
        close |-> "ESC" \in keys]

(* --------------------------- physics of a frame ----------------------- *)
\* mutant: the increment is unconditional, so the sentinel wraps to 0
CounterStep_Always(c) == UInc(c)

CounterStep(c) == IF c # UIntMax THEN UInc(c) ELSE c

\* mutant: the ceiling test is missing
WallHit_FloorOnly(b, H) == b.y - ballRadius <= 0

WallHit(b, H) == b.y - ballRadius <= 0 \/ b.y + ballRadius >= Px(H)

\* mutant: the flip is applied only to a ball moving toward the wall it is at
WallCollision_TowardWall(b, v, H) ==
    IF (b.y - ballRadius <= 0 /\ v.y < 0) \/ (b.y + ballRadius >= Px(H) /\ v.y > 0)
    THEN [x |-> v.x, y |-> -v.y] ELSE v

WallCollision(b, v, H) == IF WallHit(b, H) THEN [x |-> v.x, y |-> -v.y] ELSE v

\* mutant: the two points are exchanged
ScoreTest_Swapped(b, W) ==
    IF b.x - ballRadius <= 0 THEN 2
    ELSE IF b.x + ballRadius >= Px(W) THEN 1
    ELSE 0

ScoreTest(b, W) ==
    IF b.x - ballRadius <= 0 THEN 1
    ELSE IF b.x + ballRadius >= Px(W) THEN 2
    ELSE 0

\* mutant: the width is used for both coordinates
ResetOffset_Square(W, H) == [x |-> Px(W) \div 2, y |-> Px(W) \div 2]

ResetOffset(W, H) == [x |-> Px(W) \div 2, y |-> Px(H) \div 2]

\* mutant: the serve goes to the player who did not score
ResetVelocity_Away(reset) ==
    [x |-> IF reset = 1 THEN -initBallVelocity.x ELSE initBallVelocity.x,
     y |-> initBallVelocity.y]

ResetVelocity(reset) ==
    [x |-> IF reset = 1 THEN initBallVelocity.x ELSE -initBallVelocity.x,
     y |-> initBallVelocity.y]

\* mutant: the threshold is compared with > instead of >=
Eligible_Strict(c) == (c # framesThreshold /\ UGe(c, framesThreshold)) \/ c = UIntMax

\* mutant: the paddle check is never gated
Eligible_Always(c) == TRUE

Eligible(c) == UGe(c, framesThreshold) \/ c = UIntMax

SelectPaddle(b, W, H) == IF 2 * b.x > Px(H) THEN 1 ELSE 0

\* mutant: the factor is 0.95 (the collision damps instead of amplifying)
Amplify_Damp(vx) == (vx * 95) \div 100

\* mutant: the amplification is applied twice
Amplify_Twice(vx) == (vx * 105 * 105) \div 10000

Amplify(vx) == (vx * 105) \div 100

Spin(pv) == (3 * pv) \div 10

\* mutant: the top/bottom test is an 'if', not an 'else if': a ball in both face
\* ranges gets both flips
PaddleCheck_BothFaces(b, v, offs, pvel, W, H) ==
    LET i == SelectPaddle(b, W, H)
        dx == Abs(b.x - offs[i].x)
        dy == Abs(b.y - offs[i].y)
        broad == dx <= halfPaddleWidth + ballRadius /\ dy <= halfPaddleHeight + ballRadius
        length == dx <= halfPaddleWidth /\ dx >= halfPaddleWidth - ballRadius
        width == dy <= halfPaddleHeight /\ dy >= halfPaddleHeight - ballRadius
        corner == ~length /\ ~width
                  /\ (dx - halfPaddleWidth) * (dx - halfPaddleWidth)
                     + (dy - halfPaddleHeight) * (dy - halfPaddleHeight)
                     <= ballRadius * ballRadius
        sd0 == offs[i].x - b.x
        signedDifference == IF i = 0 THEN -sd0 ELSE sd0
        cornerAsLength == (dy - halfPaddleHeight) <= (signedDifference - halfPaddleWidth)
        flipX == length \/ (corner /\ cornerAsLength)
        flipY == width \/ (corner /\ ~cornerAsLength)
        collision == length \/ width \/ corner
        vf == [x |-> IF flipX THEN -v.x ELSE v.x, y |-> IF flipY THEN -v.y ELSE v.y]
    IN IF broad /\ collision
       THEN [vel |-> [x |-> Amplify(vf.x), y |-> vf.y + Spin(pvel[i])],
             collision |-> TRUE, i |-> i,
             class |-> IF length THEN "length" ELSE IF width THEN "width" ELSE "corner"]
       ELSE [vel |-> v, collision |-> FALSE, i |-> i, class |-> "none"]

\* mutant: the signed difference is reversed for the right paddle instead of
\* the left one
PaddleCheck_SignRight(b, v, offs, pvel, W, H) ==
    LET i == SelectPaddle(b, W, H)
        dx == Abs(b.x - offs[i].x)
        dy == Abs(b.y - offs[i].y)
        broad == dx <= halfPaddleWidth + ballRadius /\ dy <= halfPaddleHeight + ballRadius
        length == dx <= halfPaddleWidth /\ dx >= halfPaddleWidth - ballRadius
        width == ~length /\ dy <= halfPaddleHeight /\ dy >= halfPaddleHeight - ballRadius
        corner == ~length /\ ~width
                  /\ (dx - halfPaddleWidth) * (dx - halfPaddleWidth)
                     + (dy - halfPaddleHeight) * (dy - halfPaddleHeight)
                     <= ballRadius * ballRadius
        sd0 == offs[i].x - b.x
        signedDifference == IF i = 1 THEN -sd0 ELSE sd0
        cornerAsLength == (dy - halfPaddleHeight) <= (signedDifference - halfPaddleWidth)
        flipX == length \/ (corner /\ cornerAsLength)
        flipY == width \/ (corner /\ ~cornerAsLength)
        collision == length \/ width \/ corner
        vf == [x |-> IF flipX THEN -v.x ELSE v.x, y |-> IF flipY THEN -v.y ELSE v.y]
    IN IF broad /\ collision
       THEN [vel |-> [x |-> Amplify(vf.x), y |-> vf.y + Spin(pvel[i])],
             collision |-> TRUE, i |-> i,
             class |-> IF length THEN "length" ELSE IF width THEN "width" ELSE "corner"]
       ELSE [vel |-> v, collision |-> FALSE, i |-> i, class |-> "none"]

\* mutant: the edge-face range reaches out to the ball's radius
\* (distance.x <= halfPaddleWidth + ballRadius): a touch of the flat front counts
PaddleCheck_FrontTouch(b, v, offs, pvel, W, H) ==
    LET i == SelectPaddle(b, W, H)
        dx == Abs(b.x - offs[i].x)
        dy == Abs(b.y - offs[i].y)
        broad == dx <= halfPaddleWidth + ballRadius /\ dy <= halfPaddleHeight + ballRadius
        length == dx <= halfPaddleWidth + ballRadius /\ dx >= halfPaddleWidth - ballRadius
        width == ~length /\ dy <= halfPaddleHeight /\ dy >= halfPaddleHeight - ballRadius
        corner == ~length /\ ~width
                  /\ (dx - halfPaddleWidth) * (dx - halfPaddleWidth)
                     + (dy - halfPaddleHeight) * (dy - halfPaddleHeight)
                     <= ballRadius * ballRadius
        sd0 == offs[i].x - b.x
        signedDifference == IF i = 0 THEN -sd0 ELSE sd0
        cornerAsLength == (dy - halfPaddleHeight) <= (signedDifference - halfPaddleWidth)
        flipX == length \/ (corner /\ cornerAsLength)
        flipY == width \/ (corner /\ ~cornerAsLength)
        collision == length \/ width \/ corner
        vf == [x |-> IF flipX THEN -v.x ELSE v.x, y |-> IF flipY THEN -v.y ELSE v.y]
    IN IF broad /\ collision
       THEN [vel |-> [x |-> Amplify(vf.x), y |-> vf.y + Spin(pvel[i])],
             collision |-> TRUE, i |-> i,
             class |-> IF length THEN "length" ELSE IF width THEN "width" ELSE "corner"]
       ELSE [vel |-> v, collision |-> FALSE, i |-> i, class |-> "none"]

\* the body of the eligibility branch: [vel, collision, i]
PaddleCheck(b, v, offs, pvel, W, H) ==
    LET i == SelectPaddle(b, W, H)
        dx == Abs(b.x - offs[i].x)
        dy == Abs(b.y - offs[i].y)
        broad == dx <= halfPaddleWidth + ballRadius /\ dy <= halfPaddleHeight + ballRadius
        length == dx <= halfPaddleWidth /\ dx >= halfPaddleWidth - ballRadius
        width == ~length /\ dy <= halfPaddleHeight /\ dy >= halfPaddleHeight - ballRadius
        corner == ~length /\ ~width
                  /\ (dx - halfPaddleWidth) * (dx - halfPaddleWidth)
                     + (dy - halfPaddleHeight) * (dy - halfPaddleHeight)
                     <= ballRadius * ballRadius
        sd0 == offs[i].x - b.x
        signedDifference == IF i = 0 THEN -sd0 ELSE sd0
        cornerAsLength == (dy - halfPaddleHeight) <= (signedDifference - halfPaddleWidth)
        flipX == length \/ (corner /\ cornerAsLength)
        flipY == width \/ (corner /\ ~cornerAsLength)
        collision == length \/ width \/ corner
        vf == [x |-> IF flipX THEN -v.x ELSE v.x, y |-> IF flipY THEN -v.y ELSE v.y]
    IN IF broad /\ collision
       THEN [vel |-> [x |-> Amplify(vf.x), y |-> vf.y + Spin(pvel[i])],
             collision |-> TRUE, i |-> i,
             class |-> IF length THEN "length" ELSE IF width THEN "width" ELSE "corner"]
       ELSE [vel |-> v, collision |-> FALSE, i |-> i, class |-> "none"]

\* speed up to which velocity.x stays exact in the model
MaxSpeedX == (initBallVelocity.x * (21 ^ MaxAmp)) \div (20 ^ MaxAmp)

\* mutant: the order of the specification's section 4.3: integrate first, then
\* wall and paddle collision on the integrated positions, then scoring
Frame_IntegrateFirst(dt, keys) ==
    /\ ~shouldClose
    /\ dt > 0 => moves < MaxMoves
    /\ LET inp == processInput(keys, paddleOffsets, scrHeight)
           p1 == [i \in 0..1 |->
                     [x |-> inp.offsets[i].x, y |-> inp.offsets[i].y + inp.velocities[i] * dt]]
           b1 == [x |-> ballOffset.x + ballVelocity.x * dt, y |-> ballOffset.y + ballVelocity.y * dt]
           c1 == CounterStep(framesSinceLastCollision)
           v1 == WallCollision(b1, ballVelocity, scrHeight)
           pc == IF Eligible(c1)
                 THEN PaddleCheck(b1, v1, p1, inp.velocities, scrWidth, scrHeight)
                 ELSE [vel |-> v1, collision |-> FALSE, i |-> -1, class |-> "none"]
           reset == ScoreTest(b1, scrWidth)
       IN /\ Abs(pc.vel.x) <= MaxSpeedX
          /\ c1 <= MaxCount
          /\ shouldClose' = inp.close
          /\ paddleVelocities' = inp.velocities
          /\ framesSinceLastCollision' = IF pc.collision THEN 0 ELSE c1
          /\ ballVelocity' = IF reset # 0 THEN ResetVelocity(reset) ELSE pc.vel
          /\ paddleOffsets' = p1
          /\ ballOffset' = IF reset # 0 THEN ResetOffset(scrWidth, scrHeight) ELSE b1
          /\ last' = [op |-> "frame", dt |-> dt, keys |-> keys, reset |-> reset,
                      i |-> pc.i, collision |-> pc.collision, class |-> pc.class,
                      wallFlips |-> IF WallHit(b1, scrHeight)
                                    THEN (IF last.wallFlips = 0 THEN 1 ELSE 2) ELSE 0]
    /\ moves' = IF dt > 0 THEN moves + 1 ELSE moves
    /\ UNCHANGED <<scrWidth, scrHeight, resizes>>

\* mutant: a score also puts the cooldown counter back to the inactive sentinel
Frame_ScoreResetsCounter(dt, keys) ==
    /\ ~shouldClose
    /\ dt > 0 => moves < MaxMoves
    /\ LET inp == processInput(keys, paddleOffsets, scrHeight)
           reset == ScoreTest(ballOffset, scrWidth)
           c1 == IF reset # 0 THEN UIntMax ELSE CounterStep(framesSinceLastCollision)
           v1 == WallCollision(ballOffset, ballVelocity, scrHeight)
           b2 == IF reset # 0 THEN ResetOffset(scrWidth, scrHeight) ELSE ballOffset
           v2 == IF reset # 0 THEN ResetVelocity(reset) ELSE v1
           pc == IF Eligible(c1)
                 THEN PaddleCheck(b2, v2, inp.offsets, inp.velocities, scrWidth, scrHeight)
                 ELSE [vel |-> v2, collision |-> FALSE, i |-> -1, class |-> "none"]
       IN /\ Abs(pc.vel.x) <= MaxSpeedX
          /\ c1 <= MaxCount
          /\ shouldClose' = inp.close
          /\ paddleVelocities' = inp.velocities
          /\ framesSinceLastCollision' = IF pc.collision THEN 0 ELSE c1
          /\ ballVelocity' = pc.vel
          /\ paddleOffsets' = [i \in 0..1 |->
                 [x |-> inp.offsets[i].x, y |-> inp.offsets[i].y + inp.velocities[i] * dt]]
          /\ ballOffset' = [x |-> b2.x + pc.vel.x * dt, y |-> b2.y + pc.vel.y * dt]
          /\ last' = [op |-> "frame", dt |-> dt, keys |-> keys, reset |-> reset,
                      i |-> pc.i, collision |-> pc.collision, class |-> pc.class,
                      wallFlips |-> IF WallHit(ballOffset, scrHeight)
                                    THEN (IF last.wallFlips = 0 THEN 1 ELSE 2) ELSE 0]
    /\ moves' = IF dt > 0 THEN moves + 1 ELSE moves
    /\ UNCHANGED <<scrWidth, scrHeight, resizes>>

Frame(dt, keys) ==
    /\ ~shouldClose
    /\ dt > 0 => moves < MaxMoves
    /\ LET inp == processInput(keys, paddleOffsets, scrHeight)
           c1 == CounterStep(framesSinceLastCollision)
           v1 == WallCollision(ballOffset, ballVelocity, scrHeight)
           reset == ScoreTest(ballOffset, scrWidth)
           b2 == IF reset # 0 THEN ResetOffset(scrWidth, scrHeight) ELSE ballOffset
           v2 == IF reset # 0 THEN ResetVelocity(reset) ELSE v1
           elig == Eligible(c1)
           pc == IF elig
                 THEN PaddleCheck(b2, v2, inp.offsets, inp.velocities, scrWidth, scrHeight)
                 ELSE [vel |-> v2, collision |-> FALSE, i |-> -1, class |-> "none"]
       IN /\ Abs(pc.vel.x) <= MaxSpeedX
          /\ c1 <= MaxCount
          /\ shouldClose' = inp.close
          /\ paddleVelocities' = inp.velocities
          /\ framesSinceLastCollision' = IF pc.collision THEN 0 ELSE c1
          /\ ballVelocity' = pc.vel
          /\ paddleOffsets' = [i \in 0..1 |->
                 [x |-> inp.offsets[i].x, y |-> inp.offsets[i].y + inp.velocities[i] * dt]]
          /\ ballOffset' = [x |-> b2.x + pc.vel.x * dt, y |-> b2.y + pc.vel.y * dt]
          /\ last' = [op |-> "frame", dt |-> dt, keys |-> keys, reset |-> reset,
                      i |-> pc.i, collision |-> pc.collision, class |-> pc.class,
                      wallFlips |-> IF WallHit(ballOffset, scrHeight)
                                    THEN (IF last.wallFlips = 0 THEN 1 ELSE 2) ELSE 0]
    /\ moves' = IF dt > 0 THEN moves + 1 ELSE moves
    /\ UNCHANGED <<scrWidth, scrHeight, resizes>>

(* ----------------------- framebufferSizeCallback ---------------------- *)
\* delivered by glfwPollEvents in newFrame, between two frames
\* mutant: the callback leaves scrHeight as it was
framebufferSizeCallback_StaleHeight(width, height) ==
    /\ ~shouldClose
    /\ resizes < MaxResizes
    /\ scrWidth' = width
    /\ scrHeight' = scrHeight
    /\ paddleOffsets' = [paddleOffsets EXCEPT ![1].x = Px(width) - Px(paddleMargin)]
    /\ last' = [op |-> "resize", dt |-> 0, keys |-> {}, reset |-> 0,
                i |-> -1, collision |-> FALSE, class |-> "none", wallFlips |-> last.wallFlips]
    /\ resizes' = resizes + 1
    /\ UNCHANGED <<paddleVelocities, ballOffset, ballVelocity, framesSinceLastCollision, shouldClose, moves>>

framebufferSizeCallback(width, height) ==
    /\ ~shouldClose
    /\ resizes < MaxResizes
    /\ scrWidth' = width
    /\ scrHeight' = height
    /\ paddleOffsets' = [paddleOffsets EXCEPT ![1].x = Px(width) - Px(paddleMargin)]
    /\ last' = [op |-> "resize", dt |-> 0, keys |-> {}, reset |-> 0,
                i |-> -1, collision |-> FALSE, class |-> "none", wallFlips |-> last.wallFlips]
    /\ resizes' = resizes + 1
    /\ UNCHANGED <<paddleVelocities, ballOffset, ballVelocity, framesSinceLastCollision, shouldClose, moves>>

(* ------------------------------ main ---------------------------------- *)
Init ==
    /\ scrWidth = scrWidthInit
    /\ scrHeight = scrHeightInit
    /\ paddleOffsets = [i \in 0..1 |->
           [x |-> IF i = 0 THEN Px(paddleMargin) ELSE Px(scrWidthInit) - Px(paddleMargin),
            y |-> Px(scrHeightInit) \div 2]]
    /\ paddleVelocities = [i \in 0..1 |-> 0]
    /\ ballOffset = [x |-> Px(scrWidthInit) \div 2, y |-> Px(scrHeightInit) \div 2]
    /\ ballVelocity = initBallVelocity
    /\ framesSinceLastCollision = UIntMax
    /\ shouldClose = FALSE
    /\ last = [op |-> "init", dt |-> 0, keys |-> {}, reset |-> 0,
               i |-> -1, collision |-> FALSE, class |-> "none", wallFlips |-> 0]
    /\ moves = 0
    /\ resizes = 0

FrameStep == \E dt \in DtSet, keys \in KeySet : Frame(dt, keys)

\* (a resize before the first frame is the same as a larger window from the start)
ResizeStep == last.op # "init" /\ \E s \in SizeSet : framebufferSizeCallback(s[1], s[2])

Next == FrameStep \/ ResizeStep

Spec == Init /\ [][Next]_vars

(* ------------------- one frame from a position in play ---------------- *)
\* The physics of a frame as a function of where the ball is.  The ball is
\* put either on a grid of pixel offsets around one of the paddles (counter
\* inactive: before any collision) or on a grid of heights around the floor
\* and the ceiling (counter inactive or counting), in either viewport, with
\* each direction of motion, and one frame is run.
GeomX == {-14, -13, -10, -7, -6, -5, 0, 5, 6, 7, 10, 13, 14}
GeomY == {-59, -58, -56, -53, -51, -50, -46, -42, -41, 0, 41, 42, 46, 50, 51, 53, 56, 58, 59}
\* distances from the floor (or the ceiling) and from the left (or right) edge
WallY == {-1, 0, 7, 8, 9, 30}
WallX == {100}
WallCount == {UIntMax, 3}
GeomDt == {0, 2}

InitGeom ==
    /\ \E s \in {<<scrWidthInit, scrHeightInit>>} \cup SizeSet :
          /\ scrWidth = s[1]
          /\ scrHeight = s[2]
          /\ resizes = (IF s = <<scrWidthInit, scrHeightInit>> THEN 0 ELSE 1)
          /\ paddleOffsets = [i \in 0..1 |->
                 [x |-> IF i = 0 THEN Px(paddleMargin) ELSE Px(s[1]) - Px(paddleMargin),
                  y |-> Px(s[2]) \div 2]]
          /\ \/ /\ \E side \in 0..1, gx \in GeomX, gy \in GeomY :
                      ballOffset = [x |-> (IF side = 0 THEN Px(paddleMargin)
                                           ELSE Px(s[1]) - Px(paddleMargin)) + Px(gx),
                                    y |-> (Px(s[2]) \div 2) + Px(gy)]
                /\ framesSinceLastCollision = UIntMax
             \/ /\ \E right \in BOOLEAN, top \in BOOLEAN, wx \in WallX, wy \in WallY :
                      ballOffset = [x |-> IF right THEN Px(s[1]) - Px(wx) ELSE Px(wx),
                                    y |-> IF top THEN Px(s[2]) - Px(wy) ELSE Px(wy)]
                /\ framesSinceLastCollision \in WallCount
    /\ paddleVelocities = [i \in 0..1 |-> 0]
    /\ \E sx \in {-1, 1}, sy \in {-1, 1} :
          ballVelocity = [x |-> sx * initBallVelocity.x, y |-> sy * initBallVelocity.y]
    /\ shouldClose = FALSE
    /\ last = [op |-> "init", dt |-> 0, keys |-> {}, reset |-> 0,
               i |-> -1, collision |-> FALSE, class |-> "none", wallFlips |-> 0]
    /\ moves = 0

GeomFrame == last.op = "init" /\ \E dt \in GeomDt, keys \in KeySet : Frame(dt, keys)

SpecGeom == InitGeom /\ [][GeomFrame]_vars

(* ------------------- a long time after the last collision ------------- *)
\* The program a few frames before the counter runs out of the unsigned
\* range: a paddle collision, then 2^32 - 3 or 2^32 - 2 frames without one,
\* the ball just served from the centre and the paddles where they started.
InitWrap ==
    /\ scrWidth = scrWidthInit
    /\ scrHeight = scrHeightInit
    /\ paddleOffsets = [i \in 0..1 |->
           [x |-> IF i = 0 THEN Px(paddleMargin) ELSE Px(scrWidthInit) - Px(paddleMargin),
            y |-> Px(scrHeightInit) \div 2]]
    /\ paddleVelocities = [i \in 0..1 |-> 0]
    /\ ballOffset = [x |-> Px(scrWidthInit) \div 2, y |-> Px(scrHeightInit) \div 2]
    /\ \E sx \in {-1, 1} :
          ballVelocity = [x |-> sx * initBallVelocity.x, y |-> initBallVelocity.y]
    /\ framesSinceLastCollision \in {UIntMax - 2, UIntMax - 1}
    /\ shouldClose = FALSE
    /\ last = [op |-> "init", dt |-> 0, keys |-> {}, reset |-> 0,
               i |-> -1, collision |-> FALSE, class |-> "none", wallFlips |-> 0]
    /\ moves = 0
    /\ resizes = 0

SpecWrap == InitWrap /\ [][Next]_vars

(* ------------------------ a resize in the middle of play -------------- *)
\* The program at 800 x 600 with the ball somewhere in play, the right paddle
\* in the middle or pinned on its upper limit, the counter inactive or
\* counting; the window is resized and one frame is run.
\* ball positions, in pixels: under the ceiling of 600, right of x = 400 - 8,
\* on the floor, in mid-field
ResizeBall == { <<100, 595>>, <<460, 300>>, <<100, 5>>, <<300, 200>> }

InitResize ==
    /\ scrWidth = scrWidthInit
    /\ scrHeight = scrHeightInit
    /\ \E top \in BOOLEAN :
          paddleOffsets = [i \in 0..1 |->
              [x |-> IF i = 0 THEN Px(paddleMargin) ELSE Px(scrWidthInit) - Px(paddleMargin),
               y |-> IF i = 1 /\ top THEN Px(scrHeightInit) - paddleBoundary
                     ELSE Px(scrHeightInit) \div 2]]
    /\ paddleVelocities = [i \in 0..1 |-> 0]
    /\ \E p \in ResizeBall : ballOffset = [x |-> Px(p[1]), y |-> Px(p[2])]
    /\ \E sx \in {-1, 1}, sy \in {-1, 1} :
          ballVelocity = [x |-> sx * initBallVelocity.x, y |-> sy * initBallVelocity.y]
    /\ framesSinceLastCollision \in WallCount
    /\ shouldClose = FALSE
    /\ last = [op |-> "init", dt |-> 0, keys |-> {}, reset |-> 0,
               i |-> -1, collision |-> FALSE, class |-> "none", wallFlips |-> 0]
    /\ moves = 0
    /\ resizes = 0

ResizeInPlay == last.op = "init" /\ \E s \in SizeSet : framebufferSizeCallback(s[1], s[2])

FrameAfterResize == last.op = "resize" /\ \E dt \in GeomDt, keys \in KeySet : Frame(dt, keys)

SpecResize == InitResize /\ [][ResizeInPlay \/ FrameAfterResize]_vars

(* --------------------- the ball beyond the floor or ceiling ----------- *)
\* The program at 800 x 600 after a long frame has carried the ball past the
\* ceiling or the floor: the ball in mid-field, WallFar pixels outside and
\* still moving outward; frames follow.
WallFar == {52}

InitWall ==
    /\ scrWidth = scrWidthInit
    /\ scrHeight = scrHeightInit
    /\ paddleOffsets = [i \in 0..1 |->
           [x |-> IF i = 0 THEN Px(paddleMargin) ELSE Px(scrWidthInit) - Px(paddleMargin),
            y |-> Px(scrHeightInit) \div 2]]
    /\ paddleVelocities = [i \in 0..1 |-> 0]
    /\ \E top \in BOOLEAN, far \in WallFar, sx \in {-1, 1} :
          /\ ballOffset = [x |-> Px(300),
                           y |-> IF top THEN Px(scrHeightInit) + Px(far) ELSE -Px(far)]
          /\ ballVelocity = [x |-> sx * initBallVelocity.x,
                             y |-> IF top THEN initBallVelocity.y ELSE -initBallVelocity.y]
    /\ framesSinceLastCollision \in WallCount
    /\ shouldClose = FALSE
    /\ last = [op |-> "init", dt |-> 0, keys |-> {}, reset |-> 0,
               i |-> -1, collision |-> FALSE, class |-> "none", wallFlips |-> 0]
    /\ moves = 0
    /\ resizes = 0

WallFrame == \E dt \in GeomDt, keys \in KeySet : Frame(dt, keys)

SpecWall == InitWall /\ [][WallFrame]_vars

TypeOK ==
    /\ scrWidth \in Nat /\ scrHeight \in Nat
    /\ moves \in 0..MaxMoves

(* ===================== observations used by the claims ================= *)
\* The paddle check of a frame reads the ball after the scoring reset and the
\* paddles after processInput, i.e. the positions the frame's integration
\* starts from: the end-of-frame position minus velocity * dt.
IsFrame == last.op = "frame"
BallAtCheck == [x |-> ballOffset.x - ballVelocity.x * last.dt,
                y |-> ballOffset.y - ballVelocity.y * last.dt]
PaddleAtCheck(i) == [x |-> paddleOffsets[i].x,
                     y |-> paddleOffsets[i].y - paddleVelocities[i] * last.dt]

\* the collision classes of the specification, for a ball b and a paddle centre p
DistX(b, p) == Abs(b.x - p.x)
DistY(b, p) == Abs(b.y - p.y)
InBroadPhase(b, p) ==
    DistX(b, p) <= halfPaddleWidth + ballRadius /\ DistY(b, p) <= halfPaddleHeight + ballRadius
EdgeFaceClass(b, p) ==
    DistX(b, p) >= halfPaddleWidth - ballRadius /\ DistX(b, p) <= halfPaddleWidth
TopBottomClass(b, p) ==
    DistY(b, p) >= halfPaddleHeight - ballRadius /\ DistY(b, p) <= halfPaddleHeight
CornerClass(b, p) ==
    (DistX(b, p) - halfPaddleWidth) * (DistX(b, p) - halfPaddleWidth)
    + (DistY(b, p) - halfPaddleHeight) * (DistY(b, p) - halfPaddleHeight)
    <= ballRadius * ballRadius
InSomeClass(b, p) ==
    InBroadPhase(b, p) /\ (EdgeFaceClass(b, p) \/ TopBottomClass(b, p) \/ CornerClass(b, p))

(* =============================== claims ================================ *)

\* C1  Cooldown gating.  In a frame whose eligibility test reads a counter
\* below the threshold T = 10 (the counter is counting and, after this frame's
\* increment, still under T) the paddle rule does nothing: no collision is
\* flagged, the counter is not reset, velocity.x keeps its value and
\* velocity.y changes at most by the wall flip (or both take the serve values
\* on a score), even if the ball overlaps a paddle.  In a frame whose test
\* reads a counter >= T or the inactive sentinel, a ball that satisfies a
\* collision class against the selected paddle gets a response: collision
\* flagged, |velocity.x| amplified by 1.05, counter reset to 0.
C1_CooldownGating ==
    [][ last'.op = "frame" =>
        LET tested == IF framesSinceLastCollision = UIntMax
                      THEN UIntMax ELSE framesSinceLastCollision + 1
            gated == tested # UIntMax /\ tested < framesThreshold
            vxIn == IF last'.reset # 0 THEN initBallVelocity.x ELSE ballVelocity.x
        IN /\ gated =>
                /\ ~last'.collision
                /\ framesSinceLastCollision' = tested
                /\ last'.reset = 0 =>
                      /\ ballVelocity'.x = ballVelocity.x
                      /\ ballVelocity'.y \in {ballVelocity.y, -ballVelocity.y}
                /\ last'.reset # 0 =>
                      /\ ballVelocity'.x \in {initBallVelocity.x, -initBallVelocity.x}
                      /\ ballVelocity'.y = initBallVelocity.y
           /\ (~gated /\ \E j \in 0..1 : /\ j = last'.i
                                            /\ InSomeClass(BallAtCheck', PaddleAtCheck(j)')) =>
                /\ last'.collision
                /\ framesSinceLastCollision' = 0
                /\ 100 * Abs(ballVelocity'.x) = 105 * Abs(vxIn)
      ]_vars

\* C1 witness: a frame inside the cooldown (counter 1..T-1 after it) in which
\* the ball overlapped a paddle in a collision class and nothing responded.
C1_Witness ==
    /\ IsFrame /\ ~last.collision
    /\ framesSinceLastCollision >= 1 /\ framesSinceLastCollision < framesThreshold
    /\ \E i \in 0..1 : InSomeClass(BallAtCheck, PaddleAtCheck(i))

\* C2  Scoring detection and reset.  In every frame the score is decided by
\* the ball position the frame starts with: right player if x - radius <= 0,
\* otherwise left player if x + radius >= screenWidth, otherwise none (one
\* outcome per frame, the left-bound test first).  On a score the ball is put
\* at (screenWidth/2, screenHeight/2), the point the frame's integration starts
\* from, and the scoring block leaves velocity (+initialSpeed.x, +initialSpeed.y)
\* when the right player scored and (-initialSpeed.x, +initialSpeed.y) when the
\* left player scored, whatever the velocity and the wall flip before.
C2_ScoringReset ==
    [][ last'.op = "frame" =>
        LET rightScores == ballOffset.x - ballRadius <= 0
            leftScores == ~rightScores /\ ballOffset.x + ballRadius >= Px(scrWidth)
        IN /\ last'.reset = (IF rightScores THEN 1 ELSE IF leftScores THEN 2 ELSE 0)
           /\ last'.reset # 0 =>
                /\ 2 * BallAtCheck'.x = Px(scrWidth) /\ 2 * BallAtCheck'.y = Px(scrHeight)
                /\ ~last'.collision =>
                     /\ ballVelocity'.x = (IF rightScores THEN initBallVelocity.x
                                           ELSE -initBallVelocity.x)
                     /\ ballVelocity'.y = initBallVelocity.y
      ]_vars

\* C2 witness: a frame in which the right player scored (ball past the left
\* bound) and the ball was served from the centre with (+150, +150).
C2_Witness ==
    /\ IsFrame /\ last.reset = 1
    /\ 2 * BallAtCheck.x = Px(scrWidth) /\ 2 * BallAtCheck.y = Px(scrHeight)
    /\ ballVelocity = initBallVelocity

Sign(a) == IF a > 0 THEN 1 ELSE IF a < 0 THEN -1 ELSE 0
\* the paddle of the player who scored: reset = 1 is the right player's point
Scorer == IF last.reset = 1 THEN 1 ELSE 0

\* C3 (as claimed)  After every score the serve points away from the scoring
\* player's paddle (toward the side that did not score).
C3_ServeAwayFromScorer ==
    (IsFrame /\ last.reset # 0 /\ ~last.collision) =>
        Sign(ballVelocity.x) = -Sign(paddleOffsets[Scorer].x - BallAtCheck.x)

\* C3 (amended)  After every score the serve points toward the scoring
\* player's paddle: velocity.x = +initialSpeed.x (toward the right paddle at
\* screenWidth - 35) when the right player scored, -initialSpeed.x (toward the
\* left paddle at 35) when the left player scored.
C3_ServeTowardScorer ==
    (IsFrame /\ last.reset # 0 /\ ~last.collision) =>
        /\ ballVelocity.x = (IF last.reset = 1 THEN initBallVelocity.x ELSE -initBallVelocity.x)
        /\ Sign(ballVelocity.x) = Sign(paddleOffsets[Scorer].x - BallAtCheck.x)

\* C3 witness: the left player has just scored and the ball leaves the centre.
C3_Witness ==
    IsFrame /\ last.reset = 2 /\ ~last.collision /\ last.dt > 0

C5_WallReflection ==
    [][ (last'.op = "frame" /\ last'.reset = 0 /\ ~last'.collision) =>
        LET wall == ballOffset.y - ballRadius <= 0 \/ ballOffset.y + ballRadius >= Px(scrHeight)
        IN /\ ballVelocity'.y = (IF wall THEN -ballVelocity.y ELSE ballVelocity.y)
           /\ ballVelocity'.x = ballVelocity.x
      ]_vars

\* C5 witness: a frame inside the cooldown that started with the ball below
\* y = radius, moving down, and ended with velocity.y = +150: no score, no
\* paddle collision.
C5_Witness ==
    /\ IsFrame /\ last.reset = 0 /\ ~last.collision
    /\ framesSinceLastCollision >= 1 /\ framesSinceLastCollision < framesThreshold
    /\ BallAtCheck.y < ballRadius
    /\ ballVelocity.y = initBallVelocity.y

\* C6 (as claimed)  The paddle tested is the right one if ball.x > screenWidth / 2
\* and the left one otherwise.
C6_SelectByHalfWidth ==
    (IsFrame /\ last.i # -1) =>
        last.i = (IF 2 * BallAtCheck.x > Px(scrWidth) THEN 1 ELSE 0)

\* C7 (as claimed)  With a fixed viewport, after every frame each paddle's
\* position.y lies in [halfPaddleHeight + ballRadius, screenHeight - halfPaddleHeight - ballRadius].
C7_PaddleInBounds ==
    (IsFrame /\ resizes = 0) =>
        \A i \in 0..1 :
            /\ paddleOffsets[i].y >= halfPaddleHeight + ballRadius
            /\ paddleOffsets[i].y <= Px(scrHeight) - halfPaddleHeight - ballRadius

\* C8  Paddle clamp idempotence.  A paddle that starts a frame exactly on its
\* upper limit screenHeight - paddleBoundary with its 'up' key held and its
\* 'down' key not held ends the frame on that limit with velocity 0, for every
\* dt; the same for 'down' on the lower limit paddleBoundary.  (Frame by frame,
\* so for any number of frames.)
C8_ClampIdempotent ==
    [][ last'.op = "frame" =>
        \A i \in 0..1 :
            LET up == IF i = 0 THEN "W" ELSE "UP"
                down == IF i = 0 THEN "S" ELSE "DOWN"
                hi == Px(scrHeight) - paddleBoundary
                lo == paddleBoundary
            IN /\ (paddleOffsets[i].y = hi /\ up \in last'.keys /\ down \notin last'.keys) =>
                     (paddleOffsets'[i].y = hi /\ paddleVelocities'[i] = 0)
               /\ (paddleOffsets[i].y = lo /\ down \in last'.keys /\ up \notin last'.keys) =>
                     (paddleOffsets'[i].y = lo /\ paddleVelocities'[i] = 0)
      ]_vars

\* C8 witness: the right paddle on its upper limit after a frame with dt > 0
\* in which 'up' was held: it did not move.
C8_Witness ==
    /\ IsFrame /\ last.dt > 0 /\ last.keys = {"UP"}
    /\ PaddleAtCheck(1).y = Px(scrHeight) - paddleBoundary
    /\ paddleOffsets[1].y = Px(scrHeight) - paddleBoundary
    /\ paddleVelocities[1] = 0

\* C10  Collision response.  In every frame in which a paddle collision is
\* detected (any class), velocity.x ends as 1.05 times the velocity.x the paddle
\* rule started from, with one sign flip for an x-flip and none for a y-flip;
\* velocity.y ends as the (possibly flipped) incoming velocity.y plus
\* 0.3 * paddleVelocity[selected paddle]; exactly one of the two components is
\* flipped; and the counter is 0.  The incoming velocity is the frame's
\* starting velocity after the wall rule, or the serve velocity after a score.
C10_CollisionResponse ==
    [][ (last'.op = "frame" /\ last'.collision) =>
        LET wall == ballOffset.y - ballRadius <= 0 \/ ballOffset.y + ballRadius >= Px(scrHeight)
            vxIn == IF last'.reset = 1 THEN initBallVelocity.x
                    ELSE IF last'.reset = 2 THEN -initBallVelocity.x ELSE ballVelocity.x
            vyIn == IF last'.reset # 0 THEN initBallVelocity.y
                    ELSE IF wall THEN -ballVelocity.y ELSE ballVelocity.y
        IN \E j \in 0..1 :
             /\ j = last'.i
             /\ framesSinceLastCollision' = 0
             /\ \/ /\ 100 * ballVelocity'.x = -105 * vxIn
                   /\ 10 * (ballVelocity'.y - vyIn) = 3 * paddleVelocities'[j]
                \/ /\ 100 * ballVelocity'.x = 105 * vxIn
                   /\ 10 * (ballVelocity'.y + vyIn) = 3 * paddleVelocities'[j]
      ]_vars

\* C10 witness: the second paddle collision since the last score, against a
\* moving paddle: |velocity.x| = 150 * 1.05^2.
C10_Witness ==
    /\ IsFrame /\ last.collision
    /\ 400 * Abs(ballVelocity.x) = 441 * initBallVelocity.x
    /\ paddleVelocities[last.i] # 0


\* the corner region of paddle centre p: inside the broad phase, in neither
\* face class, within one radius of the paddle's nearest corner
InCornerRegion(b, p) ==
    /\ InBroadPhase(b, p) /\ ~EdgeFaceClass(b, p) /\ ~TopBottomClass(b, p)
    /\ CornerClass(b, p)

\* C9 (as claimed)  Corner classification symmetry.  A frame that tests a ball
\* in the corner region of the left paddle (counter eligible, no wall flip, no
\* score) and the paddle check on the mirror image of that situation about
\* x = screenWidth/2 (ball x and velocity.x mirrored, the paddles' y and
\* velocities exchanged) give mirrored results: the same collision verdict
\* and velocities that are mirror images.
C9_CornerMirror ==
    [][ (/\ last'.op = "frame" /\ last'.reset = 0
         /\ framesSinceLastCollision = UIntMax
         /\ ~(ballOffset.y - ballRadius <= 0 \/ ballOffset.y + ballRadius >= Px(scrHeight))
         /\ InCornerRegion(ballOffset, PaddleAtCheck(0)')) =>
        LET mb == [x |-> Px(scrWidth) - ballOffset.x, y |-> ballOffset.y]
            mv == [x |-> -ballVelocity.x, y |-> ballVelocity.y]
            mo == [i \in 0..1 |-> [x |-> paddleOffsets[i].x,
                                   y |-> IF i = 0 THEN PaddleAtCheck(1)'.y
                                         ELSE PaddleAtCheck(0)'.y]]
            mp == [i \in 0..1 |-> IF i = 0 THEN paddleVelocities'[1] ELSE paddleVelocities'[0]]
            r == PaddleCheck(mb, mv, mo, mp, scrWidth, scrHeight)
        IN /\ r.collision = last'.collision
           /\ r.vel = [x |-> -ballVelocity'.x, y |-> ballVelocity'.y]
      ]_vars

C12_ScoringLeavesCooldown ==
    [][ (last'.op = "frame" /\ last'.reset # 0) =>
        LET inp == processInput(last'.keys, paddleOffsets, scrHeight)
        IN /\ ~last'.collision =>
                 framesSinceLastCollision' =
                     (IF framesSinceLastCollision = UIntMax THEN UIntMax
                      ELSE framesSinceLastCollision + 1)
           /\ last'.collision => framesSinceLastCollision' = 0
           /\ paddleVelocities' = inp.velocities
           /\ \A j \in 0..1 :
                 /\ paddleOffsets'[j].x = paddleOffsets[j].x
                 /\ paddleOffsets'[j].y = inp.offsets[j].y + inp.velocities[j] * last'.dt
      ]_vars

\* C12 witness: a point scored while the cooldown is counting and a paddle is
\* moving: the counter went on counting.
C12_Witness ==
    /\ IsFrame /\ last.reset # 0
    /\ framesSinceLastCollision >= 1 /\ framesSinceLastCollision < framesThreshold
    /\ \E j \in 0..1 : paddleVelocities[j] # 0

\* C13 (as claimed)  The cooldown counter never returns to inactive.  Once the
\* counter is counting (not the sentinel) a frame leaves it counting: it ends
\* the frame at 0 after a paddle collision and one higher otherwise, and never
\* equal to the sentinel, however many frames have passed.
C13_NeverBackToSentinel ==
    [][ (last'.op = "frame" /\ framesSinceLastCollision # UIntMax) =>
        /\ framesSinceLastCollision' # UIntMax
        /\ framesSinceLastCollision' =
              (IF last'.collision THEN 0 ELSE UInc(framesSinceLastCollision))
      ]_vars

\* C14  Viewport resize between frames.  The resize callback sets screenWidth
\* and screenHeight to the new size and the right paddle's x to width - 35 and
\* changes nothing else: ball position and velocity, both paddles' y and
\* velocities, the left paddle's x = 35 and the cooldown counter are as before.
\* The frame after it evaluates against the new dimensions: the scoring test
\* against the new width, the reset centre against the new width and height,
\* the wall test against the new height, and the upper paddle limit against
\* the new height.
C14_ResizeThenNewBounds ==
    [][ /\ last'.op = "resize" =>
             /\ <<scrWidth', scrHeight'>> \in SizeSet
             /\ paddleOffsets'[1].x = Px(scrWidth') - Px(35)
             /\ paddleOffsets'[1].y = paddleOffsets[1].y
             /\ paddleOffsets'[0] = paddleOffsets[0] /\ paddleOffsets'[0].x = Px(35)
             /\ ballOffset' = ballOffset /\ ballVelocity' = ballVelocity
             /\ paddleVelocities' = paddleVelocities
             /\ framesSinceLastCollision' = framesSinceLastCollision
        /\ last'.op = "frame" =>
             LET hi == Px(scrHeight) - halfPaddleHeight - ballRadius
             IN /\ last'.reset = (IF ballOffset.x - ballRadius <= 0 THEN 1
                                  ELSE IF ballOffset.x + ballRadius >= Px(scrWidth) THEN 2
                                  ELSE 0)
                /\ last'.reset # 0 =>
                      /\ 2 * BallAtCheck'.x = Px(scrWidth)
                      /\ 2 * BallAtCheck'.y = Px(scrHeight)
                /\ (last'.reset = 0 /\ ~last'.collision) =>
                      ballVelocity'.y =
                          (IF ballOffset.y - ballRadius <= 0
                              \/ ballOffset.y + ballRadius >= Px(scrHeight)
                           THEN -ballVelocity.y ELSE ballVelocity.y)
                /\ \A j \in 0..1 :
                      LET up == IF j = 0 THEN "W" ELSE "UP"
                          down == IF j = 0 THEN "S" ELSE "DOWN"
                      IN (up \in last'.keys /\ down \notin last'.keys) =>
                            IF paddleOffsets[j].y < hi
                            THEN /\ paddleVelocities'[j] = paddleSpeed
                                 /\ PaddleAtCheck(j)'.y = paddleOffsets[j].y
                            ELSE /\ paddleVelocities'[j] = 0
                                 /\ paddleOffsets'[j].y = hi
      ]_vars

\* C14 witness: the frame after a resize from 800 x 600 to 400 x 900 in which
\* the ball was above the old ceiling test (y + radius >= 600) and kept going
\* up, and the right paddle, on the old upper limit with 'up' held, moved up.
C14_Witness ==
    /\ IsFrame /\ resizes = 1 /\ last.reset = 0 /\ ~last.collision
    /\ scrHeight > scrHeightInit
    /\ BallAtCheck.y + ballRadius >= Px(scrHeightInit)
    /\ ballVelocity.y > 0
    /\ PaddleAtCheck(1).y = Px(scrHeightInit) - paddleBoundary
    /\ paddleVelocities[1] = paddleSpeed

\* C16  Collision classification.  In a frame whose paddle check runs, with
\* distance = |ball - selected paddle| componentwise at the check: outside the
\* broad phase (distance.x > halfPaddleWidth + radius or distance.y >
\* halfPaddleHeight + radius) nothing responds; inside it a ball in the
\* edge-face range (distance.x in [halfPaddleWidth - radius, halfPaddleWidth])
\* gets velocity.x flipped, else a ball in the top/bottom range (distance.y in
\* [halfPaddleHeight - radius, halfPaddleHeight]) gets velocity.y flipped, else
\* the corner test decides whether there is a collision.  A detected
\* collision flips exactly one of velocity.x and velocity.y (before the
\* amplification of x and the paddle's 0.3 * velocity added to y), and no
\* collision leaves both as the wall and scoring rules left them.
C16_Classification ==
    [][ (last'.op = "frame" /\ last'.i # -1) =>
        \E j \in 0..1 :
          /\ j = last'.i
          /\ LET b == BallAtCheck'
                 p == PaddleAtCheck(j)'
                 wall == ballOffset.y - ballRadius <= 0
                         \/ ballOffset.y + ballRadius >= Px(scrHeight)
                 vxIn == IF last'.reset = 1 THEN initBallVelocity.x
                         ELSE IF last'.reset = 2 THEN -initBallVelocity.x ELSE ballVelocity.x
                 vyIn == IF last'.reset # 0 THEN initBallVelocity.y
                         ELSE IF wall THEN -ballVelocity.y ELSE ballVelocity.y
                 xFlipped == /\ 100 * ballVelocity'.x = -105 * vxIn
                             /\ 10 * (ballVelocity'.y - vyIn) = 3 * paddleVelocities'[j]
                 yFlipped == /\ 100 * ballVelocity'.x = 105 * vxIn
                             /\ 10 * (ballVelocity'.y + vyIn) = 3 * paddleVelocities'[j]
                 untouched == ballVelocity'.x = vxIn /\ ballVelocity'.y = vyIn
                 reject == \/ DistX(b, p) > halfPaddleWidth + ballRadius
                           \/ DistY(b, p) > halfPaddleHeight + ballRadius
             IN /\ last'.collision => (xFlipped # yFlipped)
                /\ ~last'.collision => untouched
                /\ reject => ~last'.collision
                /\ (~reject /\ EdgeFaceClass(b, p)) => (last'.collision /\ xFlipped)
                /\ (~reject /\ ~EdgeFaceClass(b, p) /\ TopBottomClass(b, p)) =>
                       (last'.collision /\ yFlipped)
                /\ (~reject /\ ~EdgeFaceClass(b, p) /\ ~TopBottomClass(b, p)) =>
                       (last'.collision <=> CornerClass(b, p))
      ]_vars

\* C16 witness: a ball in both face ranges at once (distance.x <= halfPaddleWidth
\* and distance.y in [halfPaddleHeight - radius, halfPaddleHeight]) against a
\* moving paddle: classified as an edge-face hit, one flip.
C16_Witness ==
    /\ IsFrame /\ last.collision /\ last.class = "length"
    /\ \E j \in 0..1 :
          /\ j = last.i
          /\ TopBottomClass(BallAtCheck, PaddleAtCheck(j))
          /\ EdgeFaceClass(BallAtCheck, PaddleAtCheck(j))
          /\ paddleVelocities[j] # 0

C18_CooldownLength ==
    [][ (last'.op = "frame" /\ framesSinceLastCollision # UIntMax) =>
        LET k == UInc(framesSinceLastCollision)
        IN /\ (last'.i # -1) <=> UGe(k, framesThreshold)
           /\ last'.collision => UGe(k, framesThreshold)
           /\ framesSinceLastCollision' = (IF last'.collision THEN 0 ELSE k)
      ]_vars

\* C18 witness: frame f + T after a collision: the counter reads T and the
\* paddle check ran again (here without finding a collision).
C18_Witness ==
    /\ IsFrame /\ last.i # -1 /\ ~last.collision
    /\ framesSinceLastCollision = framesThreshold

\* C19  The wall flip can repeat.  The wall rule has no cooldown and does not
\* clamp the position: a frame that starts with the ball in the wall
\* condition right after a frame in which the wall rule fired flips
\* velocity.y again (no score, no paddle collision in it), and the ball ends
\* the frame at its starting y + the flipped velocity.y * dt; when the first
\* flip had turned the ball back inside, the second one sends it further
\* outside the floor or the ceiling.  Such executions exist (witness).
C19_WallFlipRepeats ==
    [][ (/\ last'.op = "frame" /\ last.op = "frame" /\ last.wallFlips >= 1
         /\ last'.reset = 0 /\ ~last'.collision
         /\ (ballOffset.y - ballRadius <= 0 \/ ballOffset.y + ballRadius >= Px(scrHeight))) =>
        /\ last'.wallFlips = 2
        /\ ballVelocity'.y = -ballVelocity.y
        /\ ballOffset'.y = ballOffset.y + ballVelocity'.y * last'.dt
        /\ (last'.dt > 0 /\ ballOffset.y + ballRadius >= Px(scrHeight) /\ ballVelocity.y < 0) =>
              ballOffset'.y > ballOffset.y
        /\ (last'.dt > 0 /\ ballOffset.y - ballRadius <= 0 /\ ballVelocity.y > 0) =>
              ballOffset'.y < ballOffset.y
      ]_vars

\* C19 witness: the second of two frames in a row, both with dt > 0, in which
\* the wall rule fired at the ceiling: the ball started it inside the wall
\* condition, was flipped to go up again and ended further above the ceiling.
C19_Witness ==
    /\ IsFrame /\ last.wallFlips = 2 /\ moves = 2 /\ last.dt > 0
    /\ last.reset = 0 /\ ~last.collision
    /\ BallAtCheck.y + ballRadius >= Px(scrHeight)
    /\ ballVelocity.y > 0
    /\ ballOffset.y > BallAtCheck.y
    /\ ballOffset.y - ballRadius > Px(scrHeight)

\* C20 (as claimed)  Paddle velocity and x.  At the end of input processing in
\* every frame each paddle's velocity is one of -paddleSpeed, 0, +paddleSpeed;
\* it is 0 when neither of that paddle's keys is pressed, and 0 when only the
\* key pointing past a limit the paddle has reached is pressed.  A frame never
\* changes a paddle's x, and changes its y by exactly velocity * dt.
C20_PaddleVelocityAndX ==
    [][ last'.op = "frame" =>
        \A j \in 0..1 :
            LET up == (IF j = 0 THEN "W" ELSE "UP") \in last'.keys
                down == (IF j = 0 THEN "S" ELSE "DOWN") \in last'.keys
                hi == Px(scrHeight) - paddleBoundary
                lo == paddleBoundary
            IN /\ paddleVelocities'[j] \in {-paddleSpeed, 0, paddleSpeed}
               /\ (~up /\ ~down) => paddleVelocities'[j] = 0
               /\ (up /\ ~down /\ paddleOffsets[j].y >= hi) => paddleVelocities'[j] = 0
               /\ (down /\ ~up /\ paddleOffsets[j].y <= lo) => paddleVelocities'[j] = 0
               /\ paddleOffsets'[j].x = paddleOffsets[j].x
               /\ paddleOffsets'[j].y = paddleOffsets[j].y + paddleVelocities'[j] * last'.dt
      ]_vars

\* C21  The ball's horizontal velocity is never 0 and its magnitude is never
\* below initialSpeed.x (150) in any reachable state; and at the end of a frame
\* in which a point was scored (and the paddle check of that frame found no
\* collision after the reset) its magnitude is exactly initialSpeed.x.
C21_SpeedFloor ==
    /\ ballVelocity.x # 0
    /\ Abs(ballVelocity.x) >= initBallVelocity.x
    /\ (IsFrame /\ last.reset # 0 /\ ~last.collision) =>
           Abs(ballVelocity.x) = initBallVelocity.x

\* C21 witness: a point scored after a paddle collision had amplified the
\* ball (the counter is counting): the magnitude is back to exactly 150.
C21_Witness ==
    /\ IsFrame /\ last.reset # 0 /\ ~last.collision
    /\ framesSinceLastCollision # UIntMax
    /\ Abs(ballVelocity.x) = initBallVelocity.x

\* C22  Eligibility is lost only through a collision.  A counter left by a
\* frame in which the paddle check was eligible and found no collision is the
\* sentinel or (unsigned) >= T; from such a counter the paddle check of the
\* next frame is eligible as well, and unless that frame detects a collision
\* it leaves again the sentinel or a value >= T.  This holds across the top of
\* the unsigned range: the frame that increments the maximum value minus 1
\* leaves the sentinel, which is not incremented, so the counter never wraps
\* to a value below T.
C22_EligibilityKept ==
    [][ (/\ last'.op = "frame"
         /\ (framesSinceLastCollision = UIntMax
             \/ UGe(framesSinceLastCollision, framesThreshold))) =>
        /\ last'.i # -1
        /\ ~last'.collision =>
              (framesSinceLastCollision' = UIntMax
               \/ UGe(framesSinceLastCollision', framesThreshold))
        /\ (~last'.collision /\ framesSinceLastCollision \in {UIntMax - 1, UIntMax}) =>
              framesSinceLastCollision' = UIntMax
      ]_vars

\* C22 witness: the counter, started two or three frames below the top of the
\* unsigned range, has reached the sentinel value in a frame that ran the
\* paddle check and found no collision.
C22_Witness ==
    /\ IsFrame /\ last.i # -1 /\ ~last.collision
    /\ framesSinceLastCollision = UIntMax

\* C23  A ball touching the flat front of a paddle is not detected until its
\* centre is inside the paddle's width.  In a frame whose paddle check runs,
\* with the ball beside the selected paddle away from its ends
\* (distance.y < halfPaddleHeight - radius): if halfPaddleWidth < distance.x <=
\* halfPaddleWidth + radius the broad phase passes but there is no collision,
\* the velocity is as the wall and scoring rules left it and the counter is
\* not reset; a collision is detected exactly when distance.x <=
\* halfPaddleWidth, and it is an edge-face hit.
C23_FrontTouchUndetected ==
    [][ (last'.op = "frame" /\ last'.i # -1) =>
        \E j \in 0..1 :
          /\ j = last'.i
          /\ LET b == BallAtCheck'
                 p == PaddleAtCheck(j)'
                 wall == ballOffset.y - ballRadius <= 0
                         \/ ballOffset.y + ballRadius >= Px(scrHeight)
                 vxIn == IF last'.reset = 1 THEN initBallVelocity.x
                         ELSE IF last'.reset = 2 THEN -initBallVelocity.x ELSE ballVelocity.x
                 vyIn == IF last'.reset # 0 THEN initBallVelocity.y
                         ELSE IF wall THEN -ballVelocity.y ELSE ballVelocity.y
             IN DistY(b, p) < halfPaddleHeight - ballRadius =>
                   /\ (DistX(b, p) > halfPaddleWidth
                       /\ DistX(b, p) <= halfPaddleWidth + ballRadius) =>
                         /\ InBroadPhase(b, p)
                         /\ ~last'.collision
                         /\ ballVelocity'.x = vxIn /\ ballVelocity'.y = vyIn
                         /\ framesSinceLastCollision' =
                               (IF framesSinceLastCollision = UIntMax THEN UIntMax
                                ELSE UInc(framesSinceLastCollision))
                   /\ last'.collision <=> DistX(b, p) <= halfPaddleWidth
                   /\ last'.collision =>
                         (last'.class = "length" /\ 100 * ballVelocity'.x = -105 * vxIn)
      ]_vars

\* C23 witness: the ball in front of the left paddle, its centre 6 px from the
\* paddle's centre line (1 px outside the paddle, 7 px of overlap) and level
\* with the paddle's middle: the paddle check ran and found nothing.
C23_Witness ==
    /\ IsFrame /\ last.i = 0 /\ ~last.collision
    /\ BallAtCheck.x - paddleOffsets[0].x = Px(6)
    /\ DistY(BallAtCheck, PaddleAtCheck(0)) < halfPaddleHeight - ballRadius
    /\ framesSinceLastCollision = UIntMax

====
